---- MODULE Spec2Model ----
(***************************************************************************)
(* Model of the DataCite REST client wrapper, datacite/rest_client.py.     *)
(*                                                                         *)
(* A Python string is a sequence of one-character strings, so that         *)
(* indexing, membership, join, split and splitlines are computed as        *)
(* Python computes them.  A call of a client method is one action: it      *)
(* builds the request, hands it to the transport (DataCiteRequest), reads  *)
(* the response the transport stored in r.code / r.data, and ends by       *)
(* returning a value or raising an exception.                              *)
(***************************************************************************)
EXTENDS Integers, Sequences, FiniteSets, TLC

VARIABLES
    ctor,       \* the arguments the client was constructed with
    client,     \* the client object: self.prefix, self.api_url
    op,         \* the method called last ("__init__" after construction)
    args,       \* the arguments of that call
    requests,   \* the requests that call handed to the transport, in order
    responses,  \* the transport's answers to them, in order
    outcome,    \* how that call ended: a return value or a raised exception
    wire,       \* the transport's record of the last media_post: mapping and body
    script      \* the calls the caller has still to make, in order

vars == <<ctor, client, op, args, requests, responses, outcome, wire, script>>

----------------------------------------------------------------------------
(* Bounds of the model. *)

MaxUrlLen == 3      \* longest explicit base URL given to the constructor
MaxDoiLen == 3      \* longest DOI name given to an operation
MaxLen == 1         \* longest MIME type / URL of a media mapping
MaxBodyLen == 4     \* longest media body the transport answers with

----------------------------------------------------------------------------
(* Python values. *)

\* Python's None; no string of characters equals it.
None == <<"<None>">>

\* bool(x) of a string or None
Truthy(x) == x # None /\ x # <<>>

\* All strings over chars of length at most n
StrSet(chars, n) == UNION {[1..k -> chars] : k \in 0..n}

LF == "\n"
CR == "\r"
FF == "\f"
CRLF == <<CR, LF>>

\* c in s
Contains(s, c) == \E i \in 1..Len(s) : s[i] = c

\* s.index(c), 1-based; only used when c is in s
IndexOf(s, c) == CHOOSE i \in 1..Len(s) : s[i] = c /\ \A j \in 1..(i - 1) : s[j] # c

RECURSIVE Join(_, _)
\* sep.join(parts)
Join(sep, parts) ==
    IF parts = <<>> THEN <<>>
    ELSE IF Len(parts) = 1 THEN parts[1]
    ELSE parts[1] \o sep \o Join(sep, Tail(parts))

\* line.split(c, 1): at most one split, at the first c
Split1(line, c) ==
    IF ~Contains(line, c) THEN <<line>>
    ELSE LET i == IndexOf(line, c)
         IN <<SubSeq(line, 1, i - 1), SubSeq(line, i + 1, Len(line))>>

\* The characters str.splitlines() breaks a line at (those a TLA+ string can
\* hold); CR immediately followed by LF is one break.
LineBreaks == {LF, CR, FF}

RECURSIVE splitlines(_)
\* s.splitlines(): no empty last line after a final line break
splitlines(s) ==
    IF s = <<>> THEN <<>>
    ELSE LET brk == {i \in 1..Len(s) : s[i] \in LineBreaks}
             eol == IF brk = {} THEN Len(s) + 1
                    ELSE CHOOSE i \in brk : \A j \in brk : i <= j
             nxt == IF eol > Len(s) THEN eol
                    ELSE IF s[eol] = CR /\ eol < Len(s) /\ s[eol + 1] = LF
                         THEN eol + 2
                    ELSE eol + 1
         IN <<SubSeq(s, 1, eol - 1)>> \o splitlines(SubSeq(s, nxt, Len(s)))

\* A dict as a function; d[k] = v
EmptyDict == [k \in {} |-> <<>>]
Put(d, k, v) == [x \in (DOMAIN d) \cup {k} |-> IF x = k THEN v ELSE d[x]]

----------------------------------------------------------------------------
(* Construction. *)

PRODUCTION_URL ==
    <<"h","t","t","p","s",":","/","/","a","p","i",".",
      "d","a","t","a","c","i","t","e",".","o","r","g","/">>

SANDBOX_URL ==
    <<"h","t","t","p","s",":","/","/","a","p","i",".","t","e","s","t",".",
      "d","a","t","a","c","i","t","e",".","o","r","g","/">>

\* lines 46-49: the base URL before normalisation
BaseUrl(url, test_mode) ==
    IF test_mode THEN SANDBOX_URL
    ELSE IF Truthy(url) THEN url ELSE PRODUCTION_URL

\* a plausible slip: always append the separator
NormalizeAlways(api_url) == api_url \o <<"/">>

\* lines 50-51: append '/' unless the last character is '/'
Normalize(api_url) ==
    IF api_url[Len(api_url)] # "/" THEN api_url \o <<"/">> ELSE api_url

\* a plausible slip: the explicit URL wins over test mode
InitIgnoringTestMode(url, prefix, test_mode) ==
    [prefix |-> prefix, api_url |-> Normalize(BaseUrl(url, FALSE))]

\* DataCiteRESTClient.__init__: the object it leaves behind
ClientInit(url, prefix, test_mode) ==
    [prefix |-> prefix, api_url |-> Normalize(BaseUrl(url, test_mode))]

----------------------------------------------------------------------------
(* The transport and the outcomes of a call. *)

\* r.data: a plain-text or XML body, or a decoded JSON object
Text(t) == [type |-> "text", text |-> t]
\* a decoded JSON object; url is data['attributes']['url'], None when the
\* object lacks that path
Json(u) == [type |-> "json", url |-> u]

\* lines 59-69 and the r.get / r.post / r.delete call that follows: the
\* request the transport is handed
Request(self, method, path, body, headers) ==
    [base_url |-> self.api_url, method |-> method, path |-> path,
     body |-> body, headers |-> headers]

Return(v) == [kind |-> "return", value |-> v]
Raise(exc) == [kind |-> "raise", exc |-> exc]

\* raise DataCiteError.factory(r.code, r.data)
DataCiteError_factory(code, data) ==
    [kind |-> "raise", exc |-> "DataCiteError", code |-> code, data |-> data]

\* What a call did: the requests it sent and how it ended
Did(reqs, out) == [requests |-> reqs, outcome |-> out]

----------------------------------------------------------------------------
(* The operations.  resp is what the transport stores in r.code and r.data *)
(* when the call's request is sent.                                        *)

s_dois == <<"d","o","i","s","/">>
s_doi == <<"d","o","i">>
s_metadata == <<"m","e","t","a","d","a","t","a">>
s_media == <<"m","e","d","i","a","/">>
s_doi_eq == <<"d","o","i","=">>
s_url_eq == <<"u","r","l","=">>

\* a plausible slip: a missing record is answered by None instead of an error
doi_get_swallow(self, doi, resp) ==
    Did(<<Request(self, "GET", s_dois \o doi, None, "")>>,
        IF resp.code = 200
        THEN IF resp.data.type # "json" THEN Raise("TypeError")
             ELSE IF resp.data.url = None THEN Raise("KeyError")
             ELSE Return(resp.data.url)
        ELSE IF resp.code = 404 THEN Return(None)
        ELSE DataCiteError_factory(resp.code, resp.data))

\* lines 71-81
doi_get(self, doi, resp) ==
    Did(<<Request(self, "GET", s_dois \o doi, None, "")>>,
        IF resp.code = 200
        THEN IF resp.data.type # "json" THEN Raise("TypeError")
             ELSE IF resp.data.url = None THEN Raise("KeyError")
             ELSE Return(resp.data.url)
        ELSE DataCiteError_factory(resp.code, resp.data))

\* lines 16-22: the names bound at module level
ModuleNames ==
    {"absolute_import", "print_function", "DataCiteError", "DataCiteRequest",
     "DataCiteRESTClient"}

\* "%s" % x
PyStr(x) == IF x = None THEN <<"N","o","n","e">> ELSE x

\* lines 83-111.  A name the method assigns anywhere (doi, line 100) is local
\* to it: reading it before its assignment raises UnboundLocalError (line 95).
\* A name bound neither in the method nor in the module (location, line 103)
\* raises NameError when it is evaluated.
draft_doi(self, new_doi, resp) ==
    LET params == {"self", "new_doi"}
        assigned == {"headers", "data", "split", "doi", "body", "r"}
        at92 == params \cup {"headers", "data"}
        \* lines 103-111
        rest == IF "location" \notin (params \cup assigned \cup ModuleNames)
                THEN Did(<<>>, Raise("NameError"))
                ELSE Did(<<Request(self, "POST", s_doi,
                                   Join(CRLF, <<s_doi_eq \o PyStr(new_doi), s_url_eq>>),
                                   "content-type: application/vnd.api+json")>>,
                         IF resp.code = 201 THEN Return(resp.data)
                         ELSE DataCiteError_factory(resp.code, resp.data))
    IN IF Truthy(new_doi)
       THEN IF Contains(new_doi, "/")
            THEN IF "doi" \in assigned /\ "doi" \notin at92
                 THEN Did(<<>>, Raise("UnboundLocalError"))
                 ELSE IF SubSeq(new_doi, 1, IndexOf(new_doi, "/") - 1) # self.prefix
                      THEN Did(<<>>, Raise("ValueError"))
                      ELSE rest
            ELSE IF self.prefix = None THEN Did(<<>>, Raise("TypeError"))
                 ELSE rest
       ELSE rest

\* a plausible slip: the pairs joined by a bare line feed
doi_post_lf(self, new_doi, location, resp) ==
    Did(<<Request(self, "POST", s_doi,
                  Join(<<LF>>, <<s_doi_eq \o new_doi, s_url_eq \o location>>),
                  "text/plain;charset=UTF-8")>>,
        IF resp.code = 201 THEN Return(resp.data)
        ELSE DataCiteError_factory(resp.code, resp.data))

\* a plausible slip: a server error is retried once
doi_post_retry(self, new_doi, location, resp) ==
    LET req == Request(self, "POST", s_doi,
                       Join(CRLF, <<s_doi_eq \o new_doi, s_url_eq \o location>>),
                       "text/plain;charset=UTF-8")
    IN Did(IF resp.code = 500 THEN <<req, req>> ELSE <<req>>,
           IF resp.code = 201 THEN Return(resp.data)
           ELSE DataCiteError_factory(resp.code, resp.data))

\* lines 113-130
doi_post(self, new_doi, location, resp) ==
    Did(<<Request(self, "POST", s_doi,
                  Join(CRLF, <<s_doi_eq \o new_doi, s_url_eq \o location>>),
                  "text/plain;charset=UTF-8")>>,
        IF resp.code = 201 THEN Return(resp.data)
        ELSE DataCiteError_factory(resp.code, resp.data))

\* lines 132-146
metadata_get(self, doi, resp) ==
    Did(<<Request(self, "GET", s_metadata \o <<"/">> \o doi, None,
                  "Accept: application/xml")>>,
        IF resp.code = 200 THEN Return(resp.data)
        ELSE DataCiteError_factory(resp.code, resp.data))

\* lines 148-165
metadata_post(self, metadata, resp) ==
    Did(<<Request(self, "POST", s_metadata, metadata,
                  "application/xml;charset=UTF-8")>>,
        IF resp.code = 201 THEN Return(resp.data)
        ELSE DataCiteError_factory(resp.code, resp.data))

\* lines 167-179
metadata_delete(self, doi, resp) ==
    Did(<<Request(self, "DELETE", s_metadata \o <<"/">> \o doi, None, "")>>,
        IF resp.code = 200 THEN Return(resp.data)
        ELSE DataCiteError_factory(resp.code, resp.data))

RECURSIVE media_loop_skip(_, _)
\* a plausible slip: a line without '=' is skipped
media_loop_skip(lines, values) ==
    IF lines = <<>> THEN Return(values)
    ELSE LET parts == Split1(Head(lines), "=")
         IN IF Len(parts) # 2 THEN media_loop_skip(Tail(lines), values)
            ELSE media_loop_skip(Tail(lines), Put(values, parts[1], parts[2]))

RECURSIVE media_loop_last(_, _)
\* a plausible slip: the line is split at its last '=' (rsplit)
media_loop_last(lines, values) ==
    IF lines = <<>> THEN Return(values)
    ELSE LET line == Head(lines)
             eqs == {i \in 1..Len(line) : line[i] = "="}
             i == CHOOSE x \in eqs : \A y \in eqs : y <= x
         IN IF eqs = {} THEN Raise("ValueError")
            ELSE media_loop_last(Tail(lines),
                     Put(values, SubSeq(line, 1, i - 1),
                                 SubSeq(line, i + 1, Len(line))))

RECURSIVE media_loop(_, _)
\* lines 191-194: the loop over the lines left to read; unpacking a line
\* that has no '=' into (mimetype, url) raises ValueError
media_loop(lines, values) ==
    IF lines = <<>> THEN Return(values)
    ELSE LET parts == Split1(Head(lines), "=")
         IN IF Len(parts) # 2 THEN Raise("ValueError")
            ELSE media_loop(Tail(lines), Put(values, parts[1], parts[2]))

\* lines 181-196
media_get(self, doi, resp) ==
    Did(<<Request(self, "GET", s_media \o doi, None, "")>>,
        IF resp.code = 200
        THEN IF resp.data.type # "text" THEN Raise("AttributeError")
             ELSE media_loop(splitlines(resp.data.text), EmptyDict)
        ELSE DataCiteError_factory(resp.code, resp.data))

\* line 209: the pairs of media.items(), in the dict's iteration order
media_body(items) ==
    Join(CRLF, [i \in 1..Len(items) |-> items[i][1] \o <<"=">> \o items[i][2]])

\* lines 198-217; items is media.items()
media_post(self, doi, items, resp) ==
    Did(<<Request(self, "POST", s_media \o doi, media_body(items),
                  "text/plain;charset=UTF-8")>>,
        IF resp.code = 200 THEN Return(resp.data)
        ELSE DataCiteError_factory(resp.code, resp.data))

----------------------------------------------------------------------------
(* The inputs the model draws from. *)

DoiChars == {"1", "x", "/"}
Dois == StrSet(DoiChars, MaxDoiLen)
\* the configured DOI prefix; None is the constructor's default
Prefixes == {<<"1">>, None}
UrlChars == {"h", "/", ":"}
Urls == StrSet(UrlChars, MaxUrlLen) \cup {None}
Locations == {<<"h">>, <<"h", "=">>}
Metadatas == {<<>>, <<"x">>}

OK == <<"O","K">>
HANDLE_ALREADY_EXISTS ==
    <<"H","A","N","D","L","E","_","A","L","R","E","A","D","Y","_",
      "E","X","I","S","T","S">>

StatusCodes == {200, 201, 404, 500}
Datas ==
    {Text(OK), Text(HANDLE_ALREADY_EXISTS), Text(<<"t", "=", "u">>),
     Json(<<"h">>), Json(None)}
Responses == [code : StatusCodes, data : Datas]

MediaChars == {"t", "=", LF}
MediaStrs == StrSet(MediaChars, MaxLen)
MediaPairs == MediaStrs \X MediaStrs
\* media.items() of the dicts of at most two entries: the keys are distinct
MediaItems ==
    {<<>>} \cup {<<p>> : p \in MediaPairs}
    \cup {pq \in MediaPairs \X MediaPairs : pq[1][1] # pq[2][1]}
\* dict(items)
DictOf(items) ==
    [k \in {items[i][1] : i \in 1..Len(items)} |->
        LET i == CHOOSE j \in 1..Len(items) : items[j][1] = k IN items[i][2]]

BodyChars == {"t", "=", LF, CR}
MediaBodies == StrSet(BodyChars, MaxBodyLen)

NoWire == [items |-> <<>>, body |-> None]

----------------------------------------------------------------------------
(* The state machine.  The caller's program is a script of calls, drawn    *)
(* when the behaviour starts; a step makes the script's next call.  The    *)
(* transport's answer to the call's request is drawn when the call is made.*)

Call(name, a) == [op |-> name, args |-> a]

\* The next call of the script is a call of method name
Next_is(name) == script # <<>> /\ Head(script).op = name

\* A finished call: what it was, what it sent, what it got, how it ended
Finish(did, resp) ==
    /\ op' = Head(script).op
    /\ args' = Head(script).args
    /\ requests' = did.requests
    /\ responses' = [i \in 1..Len(did.requests) |-> resp]
    /\ outcome' = did.outcome
    /\ script' = Tail(script)

\* The state a constructor call leaves
Constructed(url, prefix, test_mode) ==
    /\ ctor = [url |-> url, prefix |-> prefix, test_mode |-> test_mode]
    /\ client = ClientInit(url, prefix, test_mode)
    /\ op = "__init__"
    /\ args = ctor
    /\ requests = <<>>
    /\ responses = <<>>
    /\ outcome = Return(None)
    /\ wire = NoWire

\* DataCiteRESTClient(url=..., prefix=..., test_mode=...) called again
Call_init ==
    /\ Next_is("__init__")
    /\ LET a == Head(script).args
       IN /\ ctor' = a
          /\ client' = ClientInit(a.url, a.prefix, a.test_mode)
          /\ op' = "__init__"
          /\ args' = a
          /\ requests' = <<>>
          /\ responses' = <<>>
          /\ outcome' = Return(None)
          /\ script' = Tail(script)
          /\ UNCHANGED wire

Call_doi_get ==
    /\ Next_is("doi_get")
    /\ \E resp \in Responses :
           Finish(doi_get(client, Head(script).args.doi, resp), resp)
    /\ UNCHANGED <<ctor, client, wire>>

Call_draft_doi ==
    /\ Next_is("draft_doi")
    /\ \E resp \in Responses :
           Finish(draft_doi(client, Head(script).args.new_doi, resp), resp)
    /\ UNCHANGED <<ctor, client, wire>>

Call_doi_post ==
    /\ Next_is("doi_post")
    /\ \E resp \in Responses :
           Finish(doi_post(client, Head(script).args.new_doi,
                           Head(script).args.location, resp), resp)
    /\ UNCHANGED <<ctor, client, wire>>

Call_metadata_get ==
    /\ Next_is("metadata_get")
    /\ \E resp \in Responses :
           Finish(metadata_get(client, Head(script).args.doi, resp), resp)
    /\ UNCHANGED <<ctor, client, wire>>

Call_metadata_post ==
    /\ Next_is("metadata_post")
    /\ \E resp \in Responses :
           Finish(metadata_post(client, Head(script).args.metadata, resp), resp)
    /\ UNCHANGED <<ctor, client, wire>>

Call_metadata_delete ==
    /\ Next_is("metadata_delete")
    /\ \E resp \in Responses :
           Finish(metadata_delete(client, Head(script).args.doi, resp), resp)
    /\ UNCHANGED <<ctor, client, wire>>

\* media_get, the transport answering with one of resps
Call_media_get(resps) ==
    /\ Next_is("media_get")
    /\ \E resp \in resps :
           Finish(media_get(client, Head(script).args.doi, resp), resp)
    /\ UNCHANGED <<ctor, client, wire>>

\* media_post; the transport records the mapping and the body it was sent
Call_media_post ==
    /\ Next_is("media_post")
    /\ \E resp \in Responses :
           LET a == Head(script).args
               did == media_post(client, a.doi, a.media, resp)
           IN /\ Finish(did, resp)
              /\ wire' = [items |-> a.media, body |-> did.requests[1].body]
    /\ UNCHANGED <<ctor, client>>

\* The single calls a caller can make
Calls ==
    {Call("doi_get", [doi |-> d]) : d \in Dois}
    \cup {Call("draft_doi", [new_doi |-> d]) : d \in Dois \cup {None}}
    \cup {Call("doi_post", [new_doi |-> d, location |-> l]) :
              d \in Dois, l \in Locations}
    \cup {Call("metadata_get", [doi |-> d]) : d \in Dois}
    \cup {Call("metadata_post", [metadata |-> m]) : m \in Metadatas}
    \cup {Call("metadata_delete", [doi |-> d]) : d \in Dois}
    \cup {Call("media_get", [doi |-> d]) : d \in Dois}
    \cup {Call("media_post", [doi |-> d, media |-> m]) :
              d \in Dois, m \in {<<>>, << <<(<<"t">>), (<<"u">>)>> >>}}

\* A client, then one call of one operation
Init ==
    /\ \E prefix \in Prefixes, test_mode \in BOOLEAN :
           Constructed(None, prefix, test_mode)
    /\ script \in {<<c>> : c \in Calls}

Next ==
    \/ Call_doi_get
    \/ Call_draft_doi
    \/ Call_doi_post
    \/ Call_metadata_get
    \/ Call_metadata_post
    \/ Call_metadata_delete
    \/ Call_media_get(Responses)
    \/ Call_media_post

Spec == Init /\ [][Next]_vars

(* Construction: a client from every explicit URL, then a second client    *)
(* constructed from the first one's stored base URL.                       *)

InitConstruct ==
    \E url \in Urls, prefix \in Prefixes, test_mode \in BOOLEAN :
        /\ Constructed(url, prefix, test_mode)
        /\ script = <<Call("__init__",
                           [url |-> ClientInit(url, prefix, test_mode).api_url,
                            prefix |-> prefix, test_mode |-> FALSE])>>

NextConstruct == Call_init

SpecConstruct == InitConstruct /\ [][NextConstruct]_vars

(* Media round trip: media_post of a mapping, then media_get answered with *)
(* the body the transport recorded.                                        *)

TheDoi == <<"1", "/", "x">>

\* the transport answers media_get with the recorded body
Echo == {[code |-> c, data |-> Text(wire.body)] : c \in {200, 404}}

InitMedia ==
    /\ Constructed(None, <<"1">>, FALSE)
    /\ script \in {<<Call("media_post", [doi |-> TheDoi, media |-> m]),
                     Call("media_get", [doi |-> TheDoi])>> : m \in MediaItems}

NextMedia ==
    \/ Call_media_post
    \/ Call_media_get(Echo)

SpecMedia == InitMedia /\ [][NextMedia]_vars

(* Media parsing: media_get answered with every short body.                *)

ParseResponses == [code : {200, 404}, data : {Text(b) : b \in MediaBodies}]

InitParse ==
    /\ Constructed(None, <<"1">>, FALSE)
    /\ script = <<Call("media_get", [doi |-> TheDoi])>>

NextParse == Call_media_get(ParseResponses)

SpecParse == InitParse /\ [][NextParse]_vars

----------------------------------------------------------------------------
(* The claims. *)

\* The segment of a DOI name before its first '/'
PrefixSegment(doi) == SubSeq(doi, 1, IndexOf(doi, "/") - 1)

\* t occurs in s
Occurs(t, s) == \E i \in 1..(Len(s) - Len(t) + 1) : SubSeq(s, i, i + Len(t) - 1) = t

\* The status an operation takes for success
SuccessStatus(o) ==
    CASE o \in {"doi_get", "metadata_get", "metadata_delete", "media_get",
                "media_post"} -> 200
      [] o \in {"doi_post", "metadata_post", "draft_doi"} -> 201

StatusOps ==
    {"doi_get", "metadata_get", "metadata_delete", "media_get", "media_post",
     "doi_post", "metadata_post"}

\* C1 (as claimed; the code breaks it): draft_doi of a name that contains '/'
\* and whose segment before the first '/' is not the configured prefix ends
\* in ValueError, and the transport has been handed no request.
C1_PrefixMismatchIsValueError ==
    (/\ op = "draft_doi"
     /\ Truthy(args.new_doi)
     /\ Contains(args.new_doi, "/")
     /\ PrefixSegment(args.new_doi) # client.prefix)
    => (outcome = Raise("ValueError") /\ requests = <<>>)

\* C2 (as claimed; the code breaks it): for a suffix s without '/' and a
\* configured prefix p, draft_doi(s) sends one creation request that carries
\* p/s, and draft_doi(p/s) given the same transport response sends the same
\* request and ends the same way.
C2_BareAndQualifiedAgree ==
    (/\ op = "draft_doi"
     /\ Truthy(args.new_doi)
     /\ ~Contains(args.new_doi, "/")
     /\ client.prefix # None)
    => LET full == client.prefix \o <<"/">> \o args.new_doi
       IN /\ Len(requests) = 1
          /\ Occurs(full, requests[1].body)
          /\ LET other == draft_doi(client, full, responses[1])
             IN other.requests = requests /\ other.outcome = outcome

\* C3 (as claimed; the code breaks it): draft_doi() with no suffix sends
\* exactly one creation request; on 201 it returns the response's body, on
\* any other status it raises the classified API error.
C3_DraftWithoutSuffix ==
    (op = "draft_doi" /\ args.new_doi = None)
    => /\ Len(requests) = 1
       /\ requests[1].method = "POST"
       /\ responses[1].code = 201 => outcome = Return(responses[1].data)
       /\ responses[1].code # 201 =>
              outcome = DataCiteError_factory(responses[1].code, responses[1].data)

\* C4: when the transport answers doi_get, metadata_get, metadata_delete,
\* media_get, media_post with a status other than 200, or doi_post,
\* metadata_post with a status other than 201, the call ends by raising the
\* one classified error made from that status code and that body; nothing is
\* returned.
C4_NonSuccessRaisesClassified ==
    (/\ op \in StatusOps
     /\ responses # <<>>
     /\ responses[1].code # SuccessStatus(op))
    => outcome = [kind |-> "raise", exc |-> "DataCiteError",
                  code |-> responses[1].code, data |-> responses[1].data]

C4_Witness ==
    /\ op = "metadata_get"
    /\ responses # <<>>
    /\ responses[1].code = 404
    /\ outcome.kind = "raise"
    /\ outcome.code = 404

\* C5: a call of any operation hands the transport at most one request; after
\* a non-success status there is exactly that one request (no retry) and the
\* call has ended with the error raised.
C5_AtMostOneRequest ==
    (op # "__init__")
    => /\ Len(requests) <= 1
       /\ Len(responses) = Len(requests)
       /\ (responses # <<>> /\ responses[1].code # SuccessStatus(op))
          => (Len(requests) = 1 /\ outcome.kind = "raise")

C5_Witness ==
    /\ op = "doi_post"
    /\ Len(requests) = 1
    /\ responses[1].code = 500
    /\ outcome.kind = "raise"

\* C9: doi_post(new_doi, location) sends one request whose text/plain body is
\* 'doi=<new_doi>' CR LF 'url=<location>', and on status 201 returns the
\* response body unchanged, whatever it is (HANDLE_ALREADY_EXISTS included).
C9_LegacyMint ==
    (op = "doi_post")
    => /\ Len(requests) = 1
       /\ requests[1].body =
              <<"d","o","i","=">> \o args.new_doi \o <<"\r", "\n">>
                  \o <<"u","r","l","=">> \o args.location
       /\ requests[1].headers = "text/plain;charset=UTF-8"
       /\ responses[1].code = 201 => outcome = Return(responses[1].data)

C9_Witness ==
    /\ op = "doi_post"
    /\ args.location = <<"h", "=">>
    /\ responses[1].code = 201
    /\ responses[1].data = Text(HANDLE_ALREADY_EXISTS)
    /\ outcome = Return(Text(HANDLE_ALREADY_EXISTS))

\* The mappings C6 is about: no '=' in a key, no line break in a key or value
C6_Mapping(items) ==
    \A i \in 1..Len(items) :
        /\ ~Contains(items[i][1], "=")
        /\ \A c \in LineBreaks : ~Contains(items[i][1], c) /\ ~Contains(items[i][2], c)

\* C6: when media_get is answered with status 200 and the body media_post
\* serialized for a mapping whose keys hold no '=' and whose keys and values
\* hold no line break, it returns exactly that mapping.
C6_MediaRoundTrip ==
    (/\ op = "media_get"
     /\ responses[1].code = 200
     /\ responses[1].data = Text(wire.body)
     /\ C6_Mapping(wire.items))
    => outcome = Return(DictOf(wire.items))

C6_Witness ==
    /\ op = "media_get"
    /\ responses[1].code = 200
    /\ wire.items = << <<(<<"t">>), (<<"=">>)>>, <<(<<>>), (<<"t">>)>> >>
    /\ responses[1].data = Text(wire.body)
    /\ outcome.kind = "return"
    /\ outcome.value[<<"t">>] = <<"=">>

\* C10: when media_get is answered with status 200 and a body of which some
\* line holds no '=', it raises ValueError (not a DataCiteError) and returns
\* no mapping, whatever well-formed lines come before that line.
C10_MalformedLineRejectsAll ==
    (/\ op = "media_get"
     /\ responses[1].code = 200
     /\ LET lines == splitlines(responses[1].data.text)
        IN \E i \in 1..Len(lines) : ~Contains(lines[i], "="))
    => outcome = Raise("ValueError")

C10_Witness ==
    /\ op = "media_get"
    /\ responses[1].code = 200
    /\ responses[1].data = Text(<<"t", "=", "\n", "t">>)
    /\ outcome = Raise("ValueError")

\* s ends in exactly one '/'
EndsInOneSlash(s) ==
    /\ s # <<>>
    /\ s[Len(s)] = "/"
    /\ Len(s) >= 2 => s[Len(s) - 1] # "/"

\* the client is the second one, constructed from the first one's stored URL
SecondClient == op = "__init__" /\ script = <<>>

\* C7 (as claimed; an explicit URL ending in '//' breaks it): with test mode
\* off, the stored base URL of a client given an explicit URL ends in exactly
\* one '/', and a client constructed from it stores the same base URL.
C7_SingleTrailingSlash ==
    (op = "__init__" /\ ~ctor.test_mode /\ Truthy(ctor.url))
    => /\ EndsInOneSlash(client.api_url)
       /\ SecondClient => client.api_url = ctor.url

\* C7 (amended): with test mode off, the stored base URL of a client given a
\* non-empty explicit URL is that URL itself when it ends in '/', and that
\* URL with one '/' appended otherwise; a client constructed from the stored
\* base URL stores the same base URL.
C7_SlashAppendedIfMissing ==
    (op = "__init__" /\ ~ctor.test_mode /\ Truthy(ctor.url))
    => /\ client.api_url[Len(client.api_url)] = "/"
       /\ ctor.url[Len(ctor.url)] = "/" => client.api_url = ctor.url
       /\ ctor.url[Len(ctor.url)] # "/" => client.api_url = ctor.url \o <<"/">>
       /\ SecondClient => client.api_url = ctor.url

C7_Witness ==
    /\ SecondClient
    /\ ~ctor.test_mode
    /\ ctor.url = <<"h", "/">>
    /\ client.api_url = <<"h", "/">>

\* C8: a client constructed with test mode set stores the sandbox endpoint
\* whatever the explicit URL; with test mode off it stores the explicit URL
\* (with its trailing '/') when one is given and the production default
\* otherwise; construction hands the transport no request.
C8_BaseUrlChoice ==
    (op = "__init__")
    => /\ requests = <<>>
       /\ ctor.test_mode => client.api_url = SANDBOX_URL
       /\ (~ctor.test_mode /\ Truthy(ctor.url))
          => client.api_url \in {ctor.url, ctor.url \o <<"/">>}
       /\ (~ctor.test_mode /\ ~Truthy(ctor.url))
          => client.api_url = PRODUCTION_URL

C8_Witness ==
    /\ op = "__init__"
    /\ ctor.test_mode
    /\ ctor.url = <<"h", ":", "/">>
    /\ client.api_url = SANDBOX_URL

====
